---- MODULE Spec2Model ----
(***************************************************************************)
(* Transcription pipeline of app-transcribe.                               *)
(*                                                                         *)
(*   src/app/api/transcribe/route.ts   POST /api/transcribe                *)
(*   src/lib/whisper.ts                transcribeVideo and its stages      *)
(*                                                                         *)
(* Every request is one sequential async task of the Node event loop; a   *)
(* request can be suspended only at an `await`, so each action below is   *)
(* the code that runs from the completion of one awaited operation up to  *)
(* the start of the next one.                                              *)
(*                                                                         *)
(* The store, the network, ffmpeg, the speech service and the file system  *)
(* are the environment: every awaited call on them can succeed or throw.   *)
(* The clock is the sequence of values Date.now() returns, which never     *)
(* decreases. The contents of the temp directory are not part of the       *)
(* state; what is kept is which paths were allocated, which were handed to *)
(* cleanupTempFiles and which unlink calls threw.                          *)
(***************************************************************************)
EXTENDS Integers, Sequences, FiniteSets, TLC

\* ------------------------------------------------------------------ bounds
\* largest value of the millisecond clock Date.now()
MaxTime == 1

\* ------------------------------------------------------------- value sets
\* handler slots that can be in flight at the same time
Reqs == {"r1", "r2"}

\* SQL NULL / JS null of an optional column, as a value distinct from every text
Null == "<null>"
\* `duration?: number` absent (undefined), and a NULL duration column
NoDuration == -1

StoredId == "v1"
UnknownId == "v9"
\* videoId of a request body; "" is the missing / falsy id
VideoIds == {StoredId, UnknownId, ""}

\* texts the speech service can return; the empty string is a legal text
Texts == {"", "a"}
\* durations the speech service can return, in tenths of a second
ServiceDurations == {NoDuration, 0, 15}
\* values of the record's duration column before any transcription
InitialDurations == {NoDuration, 7}

\* Math.round on a non-negative number given in tenths
MathRound(d) == (d + 5) \div 10

\* JS truthiness of a string | null and of a number | undefined
TruthyText(t) == t # Null /\ t # ""
TruthyNumber(d) == d # NoDuration /\ d # 0

\* a path without a value (videoPath / audioPath = null)
NoPath == [kind |-> "none", t |-> 0]
\* path.join(tempDir, `video_${Date.now()}.mp4`)
VideoPathAt(t) == [kind |-> "video", t |-> t]
\* path.join(tempDir, `audio_${Date.now()}.mp3`)
AudioPathAt(t) == [kind |-> "audio", t |-> t]

\* TranscriptionResult; NoResult while transcribeAudio has not returned
NoResult == [text |-> Null, duration |-> NoDuration]

\* the row returned by findUnique; NoVideo is JS null (no such row)
NoVideo == [found |-> FALSE, transcription |-> Null,
            transcriptionStatus |-> "NONE", duration |-> NoDuration]
FoundVideo(row) == [found |-> TRUE, transcription |-> row.transcription,
                    transcriptionStatus |-> row.transcriptionStatus,
                    duration |-> row.duration]
\* what POST still reads of `video` after the cached check of route.ts:37:
\* video.duration (route.ts:67); fileKey is the same in every read of the row
Retained(v) == [NoVideo EXCEPT !.found = v.found, !.duration = v.duration]

\* the HTTP response of a request; NoResponse while none was sent
NoResponse == [status |-> 0, cached |-> FALSE, transcription |-> Null,
               tstatus |-> "", duration |-> NoDuration, error |-> ""]
ErrorResponse(code, msg) == [NoResponse EXCEPT !.status = code, !.error = msg]
CachedResponse(v) == [NoResponse EXCEPT !.status = 200, !.cached = TRUE,
                                        !.transcription = v.transcription,
                                        !.tstatus = "COMPLETED"]
SuccessResponse(updated) == [NoResponse EXCEPT !.status = 200,
                                        !.transcription = updated.transcription,
                                        !.tstatus = "COMPLETED",
                                        !.duration = updated.duration]

VARIABLES
    apiKey,       \* process.env.OPENAI_API_KEY is set
    store,        \* the Video table: id -> row
    now,          \* the last value Date.now() returned
    pc,           \* position of each request in POST / transcribeVideo
    videoId,      \* POST: videoId
    video,        \* POST: video, as far as it is read after line 37
    tempPath,     \* downloadToTemp: tempPath
    exAudioPath,  \* extractAndCompressAudio: audioPath
    videoPath,    \* transcribeVideo: videoPath
    audioPath,    \* transcribeVideo: audioPath
    result,       \* transcribeVideo / POST: result
    error,        \* the message of the error in flight
    cleanupCalls, \* calls of cleanupTempFiles of this run: the argument lists
    pending,      \* cleanupTempFiles: paths the for loop has still to unlink
    unlinkFailed, \* cleanupTempFiles: paths whose fs.unlink threw
    writes,       \* `data` of the prisma.video.update calls of this run that succeeded
    lookups,      \* findUnique calls of this run
    response      \* the response sent, NoResponse before

vars == <<apiKey, store, now, pc, videoId, video, tempPath, exAudioPath,
          videoPath, audioPath, result, error, cleanupCalls, pending,
          unlinkFailed, writes, lookups, response>>

\* the locals of transcribeVideo and of the functions it calls
pipeline == <<tempPath, exAudioPath, videoPath, audioPath, result, error,
              cleanupCalls, pending, unlinkFailed>>

Init ==
    /\ apiKey \in BOOLEAN
    /\ \E d \in InitialDurations :
          store = [i \in {StoredId} |->
                     [transcription |-> Null, transcriptionStatus |-> "NONE",
                      duration |-> d]]
    /\ now = 0
    /\ pc = [r \in Reqs |-> "idle"]
    /\ videoId = [r \in Reqs |-> ""]
    /\ video = [r \in Reqs |-> NoVideo]
    /\ tempPath = [r \in Reqs |-> NoPath]
    /\ exAudioPath = [r \in Reqs |-> NoPath]
    /\ videoPath = [r \in Reqs |-> NoPath]
    /\ audioPath = [r \in Reqs |-> NoPath]
    /\ result = [r \in Reqs |-> NoResult]
    /\ error = [r \in Reqs |-> ""]
    /\ cleanupCalls = [r \in Reqs |-> <<>>]
    /\ pending = [r \in Reqs |-> <<>>]
    /\ unlinkFailed = [r \in Reqs |-> {}]
    /\ writes = [r \in Reqs |-> <<>>]
    /\ lookups = [r \in Reqs |-> 0]
    /\ response = [r \in Reqs |-> NoResponse]

\* ------------------------------------------------------------ record store
\* mutant of Update: a conditional update that leaves a COMPLETED row alone
UpdateUnlessCompleted(st, id, data) ==
    IF st[id].transcriptionStatus = "COMPLETED"
      THEN st
      ELSE [st EXCEPT ![id] = [f \in DOMAIN st[id] |->
                                 IF f \in DOMAIN data THEN data[f] ELSE st[id][f]]]

\* prisma.video.update({ where: { id }, data }): only the fields of `data` change
Update(st, id, data) ==
    [st EXCEPT ![id] = [f \in DOMAIN st[id] |->
                          IF f \in DOMAIN data THEN data[f] ELSE st[id][f]]]

\* mutant of FindUnique: the `where` is dropped and the first row is returned
FindUniqueFirstRow(st, id) == FoundVideo(st[StoredId])

\* prisma.video.findUnique({ where: { id } })
FindUnique(st, id) == IF id \in DOMAIN st THEN FoundVideo(st[id]) ELSE NoVideo

\* mutant of ProcessingData: the PROCESSING write also resets the text
ProcessingDataClearsText == [transcriptionStatus |-> "PROCESSING", transcription |-> Null]

\* mutant of ProcessingData: the first write sets the status of the catch block
ProcessingDataAsFailed == [transcriptionStatus |-> "FAILED"]

\* route.ts:49
ProcessingData == [transcriptionStatus |-> "PROCESSING"]

\* mutant of CompletedData: `result.text || null` stores NULL for an empty text
CompletedDataTextOrNull(res, v) ==
    [transcription |-> IF TruthyText(res.text) THEN res.text ELSE Null,
     transcriptionStatus |-> "COMPLETED",
     duration |-> IF TruthyNumber(res.duration) THEN MathRound(res.duration)
                  ELSE v.duration]

\* route.ts:64-68
CompletedData(res, v) ==
    [transcription |-> res.text,
     transcriptionStatus |-> "COMPLETED",
     duration |-> IF TruthyNumber(res.duration) THEN MathRound(res.duration)
                  ELSE v.duration]

\* mutant of FailedData: the catch block writes the wrong status
FailedDataStillProcessing == [transcriptionStatus |-> "PROCESSING"]

\* mutant of FailedData: the catch block also clears the text
FailedDataClearsText == [transcriptionStatus |-> "FAILED", transcription |-> Null]

\* route.ts:81
FailedData == [transcriptionStatus |-> "FAILED"]

\* mutant of IsCached: the check tests the wrong status
IsCachedWhileProcessing(v) ==
    v.transcriptionStatus = "PROCESSING" /\ TruthyText(v.transcription)

\* mutant of IsCached: a FAILED record is answered from the record as well
IsCachedOrFailed(v) ==
    \/ v.transcriptionStatus = "COMPLETED" /\ TruthyText(v.transcription)
    \/ v.transcriptionStatus = "FAILED"

\* route.ts:37
IsCached(v) == v.transcriptionStatus = "COMPLETED" /\ TruthyText(v.transcription)

\* mutant of CleanupArgs: only the audio path is handed to cleanupTempFiles
CleanupArgsAudioOnly(vp, ap) == SelectSeq(<<ap>>, LAMBDA p : p # NoPath)

\* whisper.ts:129  [videoPath, audioPath].filter(Boolean)
CleanupArgs(vp, ap) == SelectSeq(<<vp, ap>>, LAMBDA p : p # NoPath)

\* the values a call of Date.now() can return: not before the last one returned
DateNow == now .. MaxTime

\* mutant of AfterTranscribeVideo: a failed call is retried from the fetch
AfterTranscribeVideoRetry(failed) == IF failed THEN "download" ELSE "save"

\* where POST continues once transcribeVideo has returned or thrown
AfterTranscribeVideo(failed) == IF failed THEN "markFailed" ELSE "save"

\* ---------------------------------------------------------------- actions
\* the handler returns: the locals of POST and of transcribeVideo are gone
ReleaseLocals(r) ==
    /\ video' = [video EXCEPT ![r] = NoVideo]
    /\ tempPath' = [tempPath EXCEPT ![r] = NoPath]
    /\ exAudioPath' = [exAudioPath EXCEPT ![r] = NoPath]
    /\ videoPath' = [videoPath EXCEPT ![r] = NoPath]
    /\ audioPath' = [audioPath EXCEPT ![r] = NoPath]
    /\ result' = [result EXCEPT ![r] = NoResult]
    /\ error' = [error EXCEPT ![r] = ""]
    /\ cleanupCalls' = [cleanupCalls EXCEPT ![r] = <<>>]
    /\ pending' = [pending EXCEPT ![r] = <<>>]
    /\ unlinkFailed' = [unlinkFailed EXCEPT ![r] = {}]

\* the handler returns `resp`
Respond(r, resp) ==
    /\ pc' = [pc EXCEPT ![r] = "done"]
    /\ response' = [response EXCEPT ![r] = resp]

\* mutant of Receive: the credential check of route.ts:17-22 is missing
ReceiveWithoutKeyCheck(r) ==
    /\ pc[r] \in {"idle", "done"}
    /\ \E id \in VideoIds, bodyOk \in BOOLEAN :
          /\ videoId' = [videoId EXCEPT ![r] = IF bodyOk THEN id ELSE ""]
          /\ IF ~bodyOk
               THEN Respond(r, ErrorResponse(500, "Internal server error"))
               ELSE IF id = ""
               THEN Respond(r, ErrorResponse(400, "Video ID is required"))
               ELSE /\ pc' = [pc EXCEPT ![r] = "find"]
                    /\ response' = [response EXCEPT ![r] = NoResponse]
    /\ writes' = [writes EXCEPT ![r] = <<>>]
    /\ lookups' = [lookups EXCEPT ![r] = 0]
    /\ UNCHANGED <<apiKey, store, now, video, pipeline>>

\* route.ts:5-25: a request arrives; body and credential checks
Receive(r) ==
    /\ pc[r] \in {"idle", "done"}
    /\ \E id \in VideoIds, bodyOk \in BOOLEAN :
          /\ videoId' = [videoId EXCEPT ![r] = IF bodyOk THEN id ELSE ""]
          /\ IF ~bodyOk
               THEN Respond(r, ErrorResponse(500, "Internal server error"))
               ELSE IF id = ""
               THEN Respond(r, ErrorResponse(400, "Video ID is required"))
               ELSE IF ~apiKey
               THEN Respond(r, ErrorResponse(500, "OpenAI API key not configured"))
               ELSE /\ pc' = [pc EXCEPT ![r] = "find"]
                    /\ response' = [response EXCEPT ![r] = NoResponse]
    /\ writes' = [writes EXCEPT ![r] = <<>>]
    /\ lookups' = [lookups EXCEPT ![r] = 0]
    /\ UNCHANGED <<apiKey, store, now, video, pipeline>>

\* route.ts:25-47: findUnique returns (or throws); 404, cached answer, or go on
FindVideo(r) ==
    /\ pc[r] = "find"
    /\ lookups' = [lookups EXCEPT ![r] = @ + 1]
    /\ \E dbOk \in BOOLEAN :
          IF ~dbOk
            THEN /\ Respond(r, ErrorResponse(500, "Internal server error"))
                 /\ UNCHANGED video
            ELSE LET v == FindUnique(store, videoId[r]) IN
                 IF ~v.found
                   THEN /\ Respond(r, ErrorResponse(404, "Video not found"))
                        /\ UNCHANGED video
                   ELSE IF IsCached(v)
                   THEN /\ Respond(r, CachedResponse(v))
                        /\ UNCHANGED video
                   ELSE /\ pc' = [pc EXCEPT ![r] = "setProcessing"]
                        /\ video' = [video EXCEPT ![r] = Retained(v)]
                        /\ UNCHANGED response
    /\ UNCHANGED <<apiKey, store, now, videoId, pipeline, writes>>

\* route.ts:47-59, whisper.ts:111-116, 78-81: the PROCESSING update returns (or
\* throws); transcribeVideo is entered and downloadToTemp allocates its path
SetProcessing(r) ==
    /\ pc[r] = "setProcessing"
    /\ \E dbOk \in BOOLEAN :
          IF ~dbOk
            THEN /\ Respond(r, ErrorResponse(500, "Internal server error"))
                 /\ video' = [video EXCEPT ![r] = NoVideo]
                 /\ UNCHANGED <<store, writes, tempPath, now>>
            ELSE /\ store' = Update(store, videoId[r], ProcessingData)
                 /\ writes' = [writes EXCEPT ![r] = Append(@, ProcessingData)]
                 /\ \E t \in DateNow :
                       /\ now' = t
                       /\ tempPath' = [tempPath EXCEPT ![r] = VideoPathAt(t)]
                 /\ pc' = [pc EXCEPT ![r] = "download"]
                 /\ UNCHANGED <<response, video>>
    /\ UNCHANGED <<apiKey, videoId, exAudioPath, videoPath, audioPath, result,
                   error, cleanupCalls, pending, unlinkFailed, lookups>>

\* whisper.ts:125-132: the finally block of transcribeVideo, entered with the
\* values vp, ap of videoPath, audioPath: cleanupTempFiles is called when one of
\* them is set, otherwise transcribeVideo is left at once
Finally(r, vp, ap, failed) ==
    IF CleanupArgs(vp, ap) = <<>>
      THEN /\ pc' = [pc EXCEPT ![r] = AfterTranscribeVideo(failed)]
           /\ UNCHANGED <<cleanupCalls, pending>>
      ELSE /\ pc' = [pc EXCEPT ![r] = "cleanup"]
           /\ cleanupCalls' = [cleanupCalls EXCEPT ![r] = Append(@, CleanupArgs(vp, ap))]
           /\ pending' = [pending EXCEPT ![r] = CleanupArgs(vp, ap)]

\* whisper.ts:81-89, 116-119, 27-38: fetch and writeFile end; on success
\* videoPath is assigned and extractAndCompressAudio allocates its path
DownloadEnd(r) ==
    /\ pc[r] = "download"
    /\ \E ok \in BOOLEAN :
          IF ok
            THEN /\ videoPath' = [videoPath EXCEPT ![r] = tempPath[r]]
                 /\ \E t \in DateNow :
                       /\ now' = t
                       /\ exAudioPath' = [exAudioPath EXCEPT ![r] = AudioPathAt(t)]
                 /\ pc' = [pc EXCEPT ![r] = "extract"]
                 /\ UNCHANGED <<error, cleanupCalls, pending>>
            ELSE /\ error' = [error EXCEPT ![r] = "Failed to download"]
                 /\ Finally(r, videoPath[r], audioPath[r], TRUE)
                 /\ UNCHANGED <<now, videoPath, exAudioPath>>
    /\ UNCHANGED <<apiKey, store, videoId, video, tempPath, audioPath, result,
                   unlinkFailed, writes, lookups, response>>

\* whisper.ts:38-43, 119-122: ffmpeg ends
ExtractEnd(r) ==
    /\ pc[r] = "extract"
    /\ \E ok \in BOOLEAN :
          IF ok
            THEN /\ audioPath' = [audioPath EXCEPT ![r] = exAudioPath[r]]
                 /\ pc' = [pc EXCEPT ![r] = "transcribe"]
                 /\ UNCHANGED <<error, cleanupCalls, pending>>
            ELSE /\ error' = [error EXCEPT ![r] = "Failed to extract audio from video"]
                 /\ Finally(r, videoPath[r], audioPath[r], TRUE)
                 /\ UNCHANGED audioPath
    /\ UNCHANGED <<apiKey, store, now, videoId, video, tempPath, exAudioPath,
                   videoPath, result, unlinkFailed, writes, lookups,
                   response>>

\* whisper.ts:52-71, 122-125: readFile and the speech service end
TranscribeEnd(r) ==
    /\ pc[r] = "transcribe"
    /\ \E ok \in BOOLEAN :
          IF ok
            THEN /\ \E text \in Texts, d \in ServiceDurations :
                       result' = [result EXCEPT ![r] = [text |-> text, duration |-> d]]
                 /\ Finally(r, videoPath[r], audioPath[r], FALSE)
                 /\ UNCHANGED error
            ELSE /\ error' = [error EXCEPT ![r] = "Failed to transcribe audio"]
                 /\ Finally(r, videoPath[r], audioPath[r], TRUE)
                 /\ UNCHANGED result
    /\ UNCHANGED <<apiKey, store, now, videoId, video, tempPath, exAudioPath,
                   videoPath, audioPath, unlinkFailed, writes, lookups,
                   response>>

\* mutant of Unlink: the catch of whisper.ts:99-101 is missing, so a failed
\* unlink leaves the loop and replaces the outcome of transcribeVideo
UnlinkRethrows(r) ==
    /\ pc[r] = "cleanup"
    /\ pending[r] # <<>>
    /\ \E deleted \in BOOLEAN :
          IF ~deleted
            THEN /\ pending' = [pending EXCEPT ![r] = <<>>]
                 /\ unlinkFailed' = [unlinkFailed EXCEPT ![r] = {}]
                 /\ error' = [error EXCEPT ![r] = "Failed to download"]
                 /\ result' = [result EXCEPT ![r] = NoResult]
                 /\ pc' = [pc EXCEPT ![r] = "markFailed"]
            ELSE /\ pending' = [pending EXCEPT ![r] = Tail(@)]
                 /\ UNCHANGED <<unlinkFailed, error, result>>
                 /\ IF Tail(pending[r]) = <<>>
                      THEN pc' = [pc EXCEPT ![r] = AfterTranscribeVideo(error[r] # "")]
                      ELSE UNCHANGED pc
    /\ UNCHANGED <<apiKey, store, now, videoId, video, tempPath, exAudioPath,
                   videoPath, audioPath, cleanupCalls, writes, lookups, response>>

\* whisper.ts:96-102: one fs.unlink of the loop ends; its failure is ignored
Unlink(r) ==
    /\ pc[r] = "cleanup"
    /\ pending[r] # <<>>
    /\ pending' = [pending EXCEPT ![r] = Tail(@)]
    /\ \E deleted \in BOOLEAN :
          IF Tail(pending[r]) = <<>>
            THEN \* the loop ends and cleanupTempFiles returns
                 /\ unlinkFailed' = [unlinkFailed EXCEPT ![r] = {}]
                 /\ pc' = [pc EXCEPT ![r] = AfterTranscribeVideo(error[r] # "")]
            ELSE /\ unlinkFailed' = [unlinkFailed EXCEPT ![r] =
                                       IF deleted THEN @ ELSE @ \cup {Head(pending[r])}]
                 /\ UNCHANGED pc
    /\ UNCHANGED <<apiKey, store, now, videoId, video, tempPath, exAudioPath,
                   videoPath, audioPath, result, error, cleanupCalls, writes,
                   lookups, response>>

\* route.ts:62-77: the COMPLETED update returns (or throws)
SaveCompleted(r) ==
    /\ pc[r] = "save"
    /\ \E dbOk \in BOOLEAN :
          IF ~dbOk
            THEN /\ error' = [error EXCEPT ![r] = "update failed"]
                 /\ pc' = [pc EXCEPT ![r] = "markFailed"]
                 /\ UNCHANGED <<store, writes, response, video, tempPath,
                                exAudioPath, videoPath, audioPath, result,
                                cleanupCalls, pending, unlinkFailed>>
            ELSE /\ store' = Update(store, videoId[r], CompletedData(result[r], video[r]))
                 /\ writes' = [writes EXCEPT ![r] =
                                 Append(@, CompletedData(result[r], video[r]))]
                 /\ Respond(r, SuccessResponse(store'[videoId[r]]))
                 /\ ReleaseLocals(r)
    /\ UNCHANGED <<apiKey, now, videoId, lookups>>

\* route.ts:77-95: the FAILED update returns (or throws into the outer catch)
MarkFailed(r) ==
    /\ pc[r] = "markFailed"
    /\ \E dbOk \in BOOLEAN :
          IF ~dbOk
            THEN /\ Respond(r, ErrorResponse(500, "Internal server error"))
                 /\ UNCHANGED <<store, writes>>
            ELSE /\ store' = Update(store, videoId[r], FailedData)
                 /\ writes' = [writes EXCEPT ![r] = Append(@, FailedData)]
                 /\ Respond(r, ErrorResponse(500, error[r]))
    /\ ReleaseLocals(r)
    /\ UNCHANGED <<apiKey, now, videoId, lookups>>

Step(r) ==
    \/ FindVideo(r)
    \/ SetProcessing(r)
    \/ DownloadEnd(r)
    \/ ExtractEnd(r)
    \/ TranscribeEnd(r)
    \/ Unlink(r)
    \/ SaveCompleted(r)
    \/ MarkFailed(r)

Next ==
    \/ \E r \in Reqs : Receive(r)
    \/ \E r \in Reqs : Step(r)

Spec == Init /\ [][Next]_vars

\* ------------------------------------------ requests handled one at a time
\* a request arrives while no other request is being handled
ReceiveSeq(r) ==
    /\ \A q \in Reqs \ {r} : pc[q] \in {"idle", "done"}
    /\ Receive(r)

NextSeq ==
    \/ \E r \in Reqs : ReceiveSeq(r)
    \/ \E r \in Reqs : Step(r)

SpecSeq == Init /\ [][NextSeq]_vars

\* ------------------------------------------------------------- vocabulary
\* the row of the stored video
Row == store[StoredId]

\* the request is inside transcribeVideo (whisper.ts:111-132)
InPipeline(r) == pc[r] \in {"download", "extract", "transcribe", "cleanup"}

\* the temp paths the current run of r has allocated (whisper.ts:79, :28)
Allocated(r) == {tempPath[r], exAudioPath[r]} \ {NoPath}

\* how many times path p was handed to cleanupTempFiles by the current run of r
TimesPassed(r, p) ==
    Cardinality({ij \in {<<i, j>> \in (1..2) \X (1..2) :
                            i <= Len(cleanupCalls[r]) /\ j <= Len(cleanupCalls[r][i])} :
                   cleanupCalls[r][ij[1]][ij[2]] = p})

\* the messages of the errors thrown inside transcribeVideo
StageErrors == {"Failed to download", "Failed to extract audio from video",
                "Failed to transcribe audio"}

\* the statuses the current run of r has written, in order
StatusesWritten(r) == [i \in 1..Len(writes[r]) |-> writes[r][i].transcriptionStatus]

\* this step is taken by request r
StepOf(r) == pc'[r] # pc[r] \/ pending'[r] # pending[r]

\* --------------------------------------------------------------------- C1
\* C1 (as claimed): when a stage error has left transcribeVideo, every temp
\* path the run allocated before the failure, in downloadToTemp or in
\* extractAndCompressAudio, was passed to cleanupTempFiles exactly once.
C1_AllocatedPathsCleanedOnce ==
    \A r \in Reqs :
        (pc[r] = "markFailed" /\ error[r] \in StageErrors)
            => \A p \in Allocated(r) : TimesPassed(r, p) = 1

\* --------------------------------------------------------------------- C2
TransitionsClaimed ==
    {<<"NONE", "PROCESSING">>, <<"FAILED", "PROCESSING">>,
     <<"PROCESSING", "COMPLETED">>, <<"PROCESSING", "FAILED">>}

\* C2 (as claimed): under any interleaving of requests every change of
\* transcriptionStatus is one of the four claimed transitions, so COMPLETED is
\* never left.
C2_OnlyClaimedTransitions ==
    [][Row'.transcriptionStatus # Row.transcriptionStatus
         => <<Row.transcriptionStatus, Row'.transcriptionStatus>> \in TransitionsClaimed]_vars

\* no request is between its lookup and its response
Quiescent == \A r \in Reqs : pc[r] \in {"idle", "find", "done"}

\* C2 (amended): every change of transcriptionStatus is the PROCESSING,
\* COMPLETED or FAILED write of a request, each request writing PROCESSING
\* first and then COMPLETED or FAILED; with overlapping requests the status can
\* so also go COMPLETED -> PROCESSING, COMPLETED -> FAILED and
\* FAILED -> COMPLETED, never back to NONE. COMPLETED is absorbing from the
\* moment the transcription is non-empty and no request that passed the cached
\* check is still in flight.
C2_TransitionsUnderInterleaving ==
    [][/\ Row'.transcriptionStatus # Row.transcriptionStatus
            => /\ <<Row.transcriptionStatus, Row'.transcriptionStatus>> \in
                     TransitionsClaimed \cup {<<"COMPLETED", "PROCESSING">>,
                                              <<"COMPLETED", "FAILED">>,
                                              <<"FAILED", "COMPLETED">>}
               /\ \E r \in Reqs :
                     /\ StepOf(r)
                     /\ Len(writes'[r]) = Len(writes[r]) + 1
                     /\ StatusesWritten(r) \o <<Row'.transcriptionStatus>> \in
                           {<<"PROCESSING">>, <<"PROCESSING", "COMPLETED">>,
                            <<"PROCESSING", "FAILED">>}
       /\ (Quiescent /\ Row.transcriptionStatus = "COMPLETED"
                     /\ TruthyText(Row.transcription))
            => (Row' = Row /\ Quiescent')]_vars

\* a later request found the record COMPLETED with a text and left it alone
C2_Witness ==
    \E r \in Reqs :
        /\ pc[r] = "done"
        /\ response[r].cached
        /\ Row.transcriptionStatus = "COMPLETED"
        /\ Row.transcription = "a"

\* --------------------------------------------------------------------- C3
\* C3: in every reachable state of the store, transcriptionStatus = COMPLETED
\* implies that transcription is not null.
C3_CompletedHasTranscription ==
    Row.transcriptionStatus = "COMPLETED" => Row.transcription # Null

\* the record is COMPLETED, here with the empty text the service may return
C3_Witness ==
    /\ Row.transcriptionStatus = "COMPLETED"
    /\ Row.transcription = ""

\* --------------------------------------------------------------------- C4
\* C4 (as claimed): a request whose lookup finds the record COMPLETED with a
\* non-null transcription, whatever the text, answers 200 with cached = true
\* and exactly the stored text, writes nothing to the store and enters no
\* pipeline stage.
C4_CachedForEveryNonNullText ==
    [][\A r \in Reqs :
         ( /\ pc[r] = "find"
           /\ pc'[r] # "find"
           /\ response'[r].status # 500
           /\ videoId[r] = StoredId
           /\ Row.transcriptionStatus = "COMPLETED"
           /\ Row.transcription # Null )
         => /\ pc'[r] = "done"
            /\ response'[r] = CachedResponse(FoundVideo(Row))
            /\ store' = store
            /\ writes'[r] = <<>>
            /\ tempPath'[r] = NoPath]_vars

\* --------------------------------------------------------------------- C5
\* C5 (as claimed): no request returns a response having written PROCESSING
\* without afterwards having written COMPLETED or FAILED, whichever later step
\* failed (a stage of the pipeline or a write to the store).
C5_NeverLeftProcessing ==
    \A r \in Reqs :
        (pc[r] = "done" /\ Len(writes[r]) > 0)
            => StatusesWritten(r)[Len(writes[r])] \in {"COMPLETED", "FAILED"}

\* C5 (amended): a request that has written PROCESSING returns either after
\* writing COMPLETED, or after writing FAILED and with the message of the error
\* that failed it, or, when the FAILED write itself throws, with the 500
\* "Internal server error" of the outer catch and PROCESSING as its last write.
C5_FailedPersistedUnlessItsWriteFails ==
    \A r \in Reqs :
        (pc[r] = "done" /\ Len(writes[r]) > 0)
            => \/ /\ StatusesWritten(r) = <<"PROCESSING", "COMPLETED">>
                  /\ response[r].status = 200
               \/ /\ StatusesWritten(r) = <<"PROCESSING", "FAILED">>
                  /\ response[r].status = 500
                  /\ response[r].error \in StageErrors \cup {"update failed"}
               \/ /\ StatusesWritten(r) = <<"PROCESSING">>
                  /\ response[r] = ErrorResponse(500, "Internal server error")

\* a stage failed after PROCESSING was written; FAILED was persisted and then
\* the error was reported
C5_Witness ==
    \E r \in Reqs :
        /\ pc[r] = "done"
        /\ StatusesWritten(r) = <<"PROCESSING", "FAILED">>
        /\ response[r] = ErrorResponse(500, "Failed to transcribe audio")

\* --------------------------------------------------------------------- C6
\* C6: every step that a request takes outside its success write leaves the
\* transcription and the duration of the record as they were, and a request
\* whose pipeline failed never reaches the success write: the only field such
\* a request changes is transcriptionStatus.
C6_FailingRunKeepsTranscription ==
    [][\A r \in Reqs :
         /\ (StepOf(r) /\ pc[r] # "save")
               => /\ Row'.transcription = Row.transcription
                  /\ Row'.duration = Row.duration
         /\ (pc[r] = "save" /\ error[r] # "")
               => pc'[r] # "done"
         /\ (pc[r] \in {"cleanup", "markFailed"} /\ error[r] \in StageErrors)
               => pc'[r] # "save"]_vars

\* a request whose extraction failed has answered; the text stored by an
\* earlier success is still there
C6_Witness ==
    \E r \in Reqs :
        /\ pc[r] = "done"
        /\ response[r] = ErrorResponse(500, "Failed to extract audio from video")
        /\ StatusesWritten(r) = <<"PROCESSING", "FAILED">>
        /\ Row.transcriptionStatus = "FAILED"
        /\ Row.transcription = "a"

\* --------------------------------------------------------------------- C7
\* C7 (as claimed): with no concurrent request, a request whose fetch, extract
\* and transcribe all succeeded ends with the record COMPLETED, the text of the
\* speech service stored, and a 200 response carrying that text.
C7_PipelineSuccessEndsCompleted ==
    [][\A r \in Reqs :
         (pc[r] = "save" /\ StepOf(r))
            => /\ pc'[r] = "done"
               /\ response'[r].status = 200
               /\ Row'.transcriptionStatus = "COMPLETED"
               /\ Row'.transcription = result[r].text]_vars

\* C7 (amended): with no concurrent request, on a record with status NONE, when
\* fetch, extract and transcribe succeed and the calls of the record store
\* succeed too: the lookup writes nothing, the first write takes the status
\* from NONE to PROCESSING, it stays PROCESSING through the pipeline, and the
\* success write takes it to COMPLETED and stores the text of the speech
\* service, which the 200 response returns with status COMPLETED.
C7_NoneProcessingCompleted ==
    [][\A r \in Reqs :
         /\ ( /\ pc[r] = "find" /\ StepOf(r)
              /\ response'[r].status # 500
              /\ videoId[r] = StoredId
              /\ Row.transcriptionStatus = "NONE" )
               => /\ pc'[r] = "setProcessing"
                  /\ Row' = Row
         /\ (pc[r] = "setProcessing" /\ pc'[r] = "download")
               => Row' = [Row EXCEPT !.transcriptionStatus = "PROCESSING"]
         /\ InPipeline(r)
               => /\ Row.transcriptionStatus = "PROCESSING"
                  /\ Row' = Row
         /\ (pc[r] = "save" /\ pc'[r] = "done")
               => /\ Row.transcriptionStatus = "PROCESSING"
                  /\ Row'.transcriptionStatus = "COMPLETED"
                  /\ Row'.transcription = result[r].text
                  /\ writes'[r] = <<ProcessingData, CompletedData(result[r], video[r])>>
                  /\ response'[r].status = 200
                  /\ ~response'[r].cached
                  /\ response'[r].transcription = result[r].text
                  /\ response'[r].tstatus = "COMPLETED"]_vars

\* a run went NONE, PROCESSING, COMPLETED and answered with the text
C7_Witness ==
    \E r \in Reqs :
        /\ pc[r] = "done"
        /\ StatusesWritten(r) = <<"PROCESSING", "COMPLETED">>
        /\ response[r].status = 200 /\ ~response[r].cached
        /\ response[r].transcription = "a"
        /\ Row.transcriptionStatus = "COMPLETED"
        /\ Row.transcription = "a"

\* --------------------------------------------------------------------- C8
\* C8 (as claimed): on the success write, when the service returned no
\* duration the duration of the record stays what it was just before the
\* write, and when it returned a duration d, 0 included, it becomes round(d).
C8_DurationPolicy ==
    [][\A r \in Reqs :
         (pc[r] = "save" /\ pc'[r] = "done")
            => Row'.duration = IF result[r].duration = NoDuration
                                 THEN Row.duration
                                 ELSE MathRound(result[r].duration)]_vars

\* --------------------------------------------------------------------- C9
\* C9 (as claimed): the temp paths allocated by two invocations of
\* transcribeVideo that are in progress at the same time are distinct.
C9_TempPathsDistinct ==
    \A r1, r2 \in Reqs :
        (r1 # r2 /\ InPipeline(r1) /\ InPipeline(r2))
            => Allocated(r1) \cap Allocated(r2) = {}

\* -------------------------------------------------------------------- C10
\* C10: every success write stores the text of its own run and COMPLETED,
\* whatever the record holds at that moment, also a COMPLETED written by another
\* request in between: of two requests that both run the pipeline, the later
\* success write decides the stored transcription.
C10_LastWriterWins ==
    [][\A r \in Reqs :
         (pc[r] = "save" /\ pc'[r] = "done")
            => /\ Row'.transcription = result[r].text
               /\ Row'.transcriptionStatus = "COMPLETED"
               /\ response'[r].transcription = result[r].text]_vars

\* both requests passed the cached check, ran the pipeline and wrote COMPLETED
\* (neither answer is a cached one); the record holds the text of the second
\* write, not the "a" of the first
C10_Witness ==
    \E r1, r2 \in Reqs :
        /\ r1 # r2
        /\ pc[r1] = "done" /\ pc[r2] = "done"
        /\ StatusesWritten(r1) = <<"PROCESSING", "COMPLETED">>
        /\ StatusesWritten(r2) = <<"PROCESSING", "COMPLETED">>
        /\ response[r1].status = 200 /\ ~response[r1].cached
        /\ response[r2].status = 200 /\ ~response[r2].cached
        /\ response[r1].transcription = "a"
        /\ response[r2].transcription = ""
        /\ Row.transcriptionStatus = "COMPLETED"
        /\ Row.transcription = ""

\* the run of r has not touched transcribeVideo: none of its locals is set
NoPipelineCall(r) ==
    /\ tempPath[r] = NoPath /\ exAudioPath[r] = NoPath
    /\ videoPath[r] = NoPath /\ audioPath[r] = NoPath
    /\ result[r] = NoResult /\ cleanupCalls[r] = <<>>

\* -------------------------------------------------------------------- C11
\* C11: the only step of a request whose videoId has no row is its lookup;
\* when the lookup returns (no row) the request answers 404 "Video not found"
\* (a lookup that throws is answered 500 "Internal server error"); the step
\* writes nothing to the store and starts no pipeline stage.
C11_UnknownVideoIs404 ==
    [][\A r \in Reqs :
         (videoId[r] = UnknownId /\ pc[r] \notin {"idle", "done"} /\ StepOf(r))
            => /\ pc[r] = "find"
               /\ pc'[r] = "done"
               /\ lookups'[r] = 1
               /\ response'[r] \in {ErrorResponse(404, "Video not found"),
                                    ErrorResponse(500, "Internal server error")}
               /\ store' = store
               /\ writes'[r] = <<>>
               /\ NoPipelineCall(r)']_vars

\* a request for an unknown video was answered 404, nothing written
C11_Witness ==
    \E r \in Reqs :
        /\ pc[r] = "done"
        /\ videoId[r] = UnknownId
        /\ response[r] = ErrorResponse(404, "Video not found")
        /\ writes[r] = <<>>

\* -------------------------------------------------------------------- C12
\* C12: while the credential is not configured, a request that carries a video
\* id is answered 500 "OpenAI API key not configured" at once: no findUnique,
\* no update and no pipeline stage is ever started.
C12_NoKeyFailsBeforeStore ==
    ~apiKey =>
        \A r \in Reqs :
            /\ pc[r] \in {"idle", "done"}
            /\ lookups[r] = 0
            /\ writes[r] = <<>>
            /\ NoPipelineCall(r)
            /\ (pc[r] = "done" /\ videoId[r] # "")
                  => response[r] = ErrorResponse(500, "OpenAI API key not configured")

\* without the credential a request with a video id got the configuration error
C12_Witness ==
    \E r \in Reqs :
        /\ ~apiKey
        /\ pc[r] = "done"
        /\ videoId[r] = StoredId
        /\ response[r] = ErrorResponse(500, "OpenAI API key not configured")

\* -------------------------------------------------------------------- C13
\* position of a program point within one transcribeVideo call
StageRank(p) ==
    CASE p = "download" -> 1
      [] p = "extract" -> 2
      [] p = "transcribe" -> 3
      [] p = "cleanup" -> 4
      [] OTHER -> 5

\* what transcribeVideo hands back: the whole result of transcribeAudio
CompleteResults == [text : Texts, duration : ServiceDurations]

\* C13: within one transcribeVideo call extract is entered only from a fetch
\* that succeeded, transcribe only from an extract that succeeded, no stage is
\* entered a second time, and the call leaves either with the complete result
\* of transcribe and no error, or with a stage error and no result.
C13_StagesInOrderOnce ==
    [][\A r \in Reqs :
         (InPipeline(r) /\ StepOf(r)) =>
            /\ StageRank(pc'[r]) > StageRank(pc[r])
                  \/ (pc[r] = "cleanup" /\ pc'[r] = "cleanup"
                        /\ Len(pending'[r]) < Len(pending[r]))
            /\ pc'[r] = "extract"
                  => /\ pc[r] = "download"
                     /\ videoPath'[r] = tempPath[r] /\ videoPath'[r] # NoPath
                     /\ error'[r] = ""
            /\ pc'[r] = "transcribe"
                  => /\ pc[r] = "extract"
                     /\ videoPath[r] # NoPath
                     /\ audioPath'[r] = exAudioPath[r] /\ audioPath'[r] # NoPath
                     /\ error'[r] = ""
            /\ result'[r] # result[r]
                  => /\ pc[r] = "transcribe"
                     /\ audioPath[r] # NoPath
                     /\ result[r] = NoResult
                     /\ result'[r] \in CompleteResults
            /\ pc'[r] = "save"
                  => result'[r] \in CompleteResults /\ error'[r] = ""
            /\ pc'[r] = "markFailed"
                  => result'[r] = NoResult /\ error'[r] \in StageErrors
            /\ ~InPipeline(r)' => pc'[r] \in {"save", "markFailed"}]_vars

\* a call went through all three stages and returned the result
C13_Witness ==
    \E r \in Reqs :
        /\ pc[r] = "save"
        /\ result[r] \in CompleteResults
        /\ videoPath[r] # NoPath /\ audioPath[r] # NoPath
        /\ cleanupCalls[r] = << <<videoPath[r], audioPath[r]>> >>

\* -------------------------------------------------------------------- C14
\* C14: every step of the cleanup loop, whether its unlink deleted the file or
\* threw, moves on to the next path, so every path handed to cleanupTempFiles
\* is attempted; it changes neither the result nor the error of the call, and
\* when the loop ends transcribeVideo returns the result if no stage failed and
\* throws the stage error otherwise.
C14_UnlinkFailureSwallowed ==
    [][\A r \in Reqs :
         (pc[r] = "cleanup" /\ StepOf(r)) =>
            /\ pending[r] # <<>>
            /\ pending'[r] = Tail(pending[r])
            /\ result'[r] = result[r]
            /\ error'[r] = error[r]
            /\ cleanupCalls'[r] = cleanupCalls[r]
            /\ unlinkFailed'[r] \subseteq unlinkFailed[r] \cup {Head(pending[r])}
            /\ pending'[r] # <<>> => pc'[r] = "cleanup"
            /\ pending'[r] = <<>>
                  => pc'[r] = (IF error[r] = "" THEN "save" ELSE "markFailed")]_vars

\* the unlink of the video file failed and the audio file is still to be deleted
C14_Witness ==
    \E r \in Reqs :
        /\ pc[r] = "cleanup"
        /\ unlinkFailed[r] = {videoPath[r]}
        /\ pending[r] = <<audioPath[r]>>
        /\ audioPath[r] # NoPath

\* -------------------------------------------------------------------- C15
\* C15 (as claimed): with no concurrent request, a request that finds the
\* record FAILED goes on to the PROCESSING write, that write leaves the record
\* PROCESSING and starts the pipeline, and a pipeline that succeeded ends with
\* the record COMPLETED holding the new text.
C15_FailedRecordRetriedToCompleted ==
    [][\A r \in Reqs :
         /\ ( /\ pc[r] = "find" /\ StepOf(r)
              /\ response'[r].status # 500
              /\ videoId[r] = StoredId
              /\ Row.transcriptionStatus = "FAILED" )
               => pc'[r] = "setProcessing"
         /\ ( /\ pc[r] = "setProcessing" /\ StepOf(r)
              /\ Row.transcriptionStatus = "FAILED" )
               => /\ pc'[r] = "download"
                  /\ Row'.transcriptionStatus = "PROCESSING"
         /\ (pc[r] = "save" /\ StepOf(r))
               => /\ Row'.transcriptionStatus = "COMPLETED"
                  /\ Row'.transcription = result[r].text
                  /\ response'[r].transcription = result[r].text]_vars

\* C15 (amended): with no concurrent request, a request that finds the record
\* FAILED is not answered from the record but goes on to the PROCESSING write;
\* when that write returns the record is PROCESSING and a fresh transcribeVideo
\* call has started with nothing carried over; when the pipeline succeeded and
\* the success write returns the record is COMPLETED with the new text; and a
\* run that has failed never enters a stage again.
C15_FailedRecordRetriedWhenWritesSucceed ==
    [][\A r \in Reqs :
         /\ ( /\ pc[r] = "find" /\ StepOf(r)
              /\ response'[r].status # 500
              /\ videoId[r] = StoredId
              /\ Row.transcriptionStatus = "FAILED" )
               => /\ pc'[r] = "setProcessing"
                  /\ Row' = Row
         /\ ( /\ pc[r] = "setProcessing" /\ pc'[r] # "done"
              /\ Row.transcriptionStatus = "FAILED" )
               => /\ pc'[r] = "download"
                  /\ Row' = [Row EXCEPT !.transcriptionStatus = "PROCESSING"]
                  /\ tempPath'[r] # NoPath
                  /\ videoPath'[r] = NoPath /\ audioPath'[r] = NoPath
                  /\ result'[r] = NoResult /\ error'[r] = ""
                  /\ cleanupCalls'[r] = <<>>
         /\ (pc[r] = "save" /\ pc'[r] = "done")
               => /\ Row'.transcriptionStatus = "COMPLETED"
                  /\ Row'.transcription = result[r].text
                  /\ response'[r].status = 200
                  /\ response'[r].transcription = result[r].text
         /\ (error[r] # "" /\ StepOf(r))
               => pc'[r] \in {"cleanup", "markFailed", "done"}]_vars

\* a request found the record FAILED and is about to write PROCESSING
C15_Witness ==
    \E r \in Reqs :
        /\ pc[r] = "setProcessing"
        /\ videoId[r] = StoredId
        /\ Row.transcriptionStatus = "FAILED"
        /\ \E q \in Reqs \ {r} :
              /\ pc[q] = "done"
              /\ response[q].status = 500
              /\ StatusesWritten(q) = <<"PROCESSING", "FAILED">>

\* -------------------------------------------------------------------- C16
\* C16 (as claimed): with no concurrent request, when the extraction threw, the
\* video temp file has been handed to cleanupTempFiles by the time the
\* controller handles the error, and the controller leaves the record FAILED
\* with its transcription as it was and answers 500 with an error message.
C16_ExtractFailureEndsFailed ==
    [][\A r \in Reqs :
         ( /\ pc[r] = "markFailed" /\ StepOf(r)
           /\ error[r] = "Failed to extract audio from video" )
            => /\ videoPath[r] # NoPath
               /\ cleanupCalls[r] = << <<videoPath[r]>> >>
               /\ pending[r] = <<>>
               /\ Row'.transcriptionStatus = "FAILED"
               /\ Row'.transcription = Row.transcription
               /\ response'[r].status = 500
               /\ response'[r].error # ""]_vars

\* C16 (amended): with no concurrent request, an extraction that throws hands
\* the video temp file, and only it, to cleanupTempFiles before the controller
\* sees the error; the controller then answers 500 with an error message and
\* leaves the transcription as it was; when its FAILED write returns, the
\* record is FAILED and the message is the one of the extraction step.
C16_ExtractFailureEndsFailedWhenWriteSucceeds ==
    [][\A r \in Reqs :
         /\ (pc[r] = "extract" /\ StepOf(r) /\ pc'[r] # "transcribe")
               => /\ pc'[r] = "cleanup"
                  /\ error'[r] = "Failed to extract audio from video"
                  /\ videoPath[r] # NoPath
                  /\ cleanupCalls'[r] = << <<videoPath[r]>> >>
                  /\ pending'[r] = <<videoPath[r]>>
                  /\ Row' = Row
         /\ ( /\ pc[r] = "markFailed" /\ StepOf(r)
              /\ error[r] = "Failed to extract audio from video" )
               => /\ cleanupCalls[r] = << <<videoPath[r]>> >>
                  /\ pending[r] = <<>>
                  /\ pc'[r] = "done"
                  /\ Row'.transcription = Row.transcription
                  /\ response'[r].status = 500
                  /\ response'[r].error # ""
                  /\ Len(writes'[r]) > Len(writes[r])
                        => /\ Row'.transcriptionStatus = "FAILED"
                           /\ StatusesWritten(r)' = <<"PROCESSING", "FAILED">>
                           /\ response'[r] =
                                ErrorResponse(500, "Failed to extract audio from video")]_vars

\* a run on a record without transcription failed in the extraction
C16_Witness ==
    \E r \in Reqs :
        /\ pc[r] = "done"
        /\ response[r] = ErrorResponse(500, "Failed to extract audio from video")
        /\ StatusesWritten(r) = <<"PROCESSING", "FAILED">>
        /\ Row.transcriptionStatus = "FAILED"
        /\ Row.transcription = Null

\* -------------------------------------------------------------------- C17
\* this step of r is an update of the record store that threw: the PROCESSING
\* write into the outer catch, the COMPLETED write into the inner catch, or the
\* FAILED write into the outer catch
WriteThrows(r) ==
    \/ pc[r] = "setProcessing" /\ pc'[r] = "done"
    \/ pc[r] = "save" /\ pc'[r] = "markFailed"
    \/ pc[r] = "markFailed" /\ pc'[r] = "done" /\ writes'[r] = writes[r]

\* the steps of the handler when every update of the record store succeeds
StepWritesOk(r) == Step(r) /\ ~WriteThrows(r)

NextWritesOk ==
    \/ \E r \in Reqs : Receive(r)
    \/ \E r \in Reqs : StepWritesOk(r)

\* overlapping requests with a record store whose writes never fail
SpecWritesOk == Init /\ [][NextWritesOk]_vars

\* every request has returned
AllReturned == \A r \in Reqs : pc[r] \in {"idle", "done"}

\* C17: when the writes of the record store succeed, then under any
\* interleaving of the requests, whenever all of them have returned the record
\* is not PROCESSING, and it is COMPLETED or FAILED when one of them wrote.
C17_NotProcessingWhenAllReturned ==
    AllReturned =>
        /\ Row.transcriptionStatus # "PROCESSING"
        /\ (\E r \in Reqs : writes[r] # <<>>)
              => Row.transcriptionStatus \in {"COMPLETED", "FAILED"}

\* two overlapping requests have returned: one stored its text, the other
\* failed after it and had passed the cached check before it
C17_Witness ==
    /\ AllReturned
    /\ \E r, q \in Reqs :
          /\ StatusesWritten(r) = <<"PROCESSING", "COMPLETED">>
          /\ StatusesWritten(q) = <<"PROCESSING", "FAILED">>
          /\ response[r].transcription = "a"
          /\ Row.transcription = "a"
          /\ Row.transcriptionStatus = "FAILED"

\* -------------------------------------------------------------------- C18
\* C18: under any interleaving, an update whose data names the transcription
\* field is the success write of a request, and its data sets the status to
\* COMPLETED and the transcription to the text of that request's result; the
\* stored transcription changes in no other step, and once it is not null it
\* is never null again.
C18_TranscriptionOnlyWithCompleted ==
    [][/\ \A r \in Reqs :
            Len(writes'[r]) > Len(writes[r])
               => LET data == writes'[r][Len(writes'[r])] IN
                  "transcription" \in DOMAIN data
                     => /\ pc[r] = "save"
                        /\ data.transcriptionStatus = "COMPLETED"
                        /\ data.transcription = result[r].text
                        /\ data.transcription # Null
       /\ Row'.transcription # Row.transcription
             => \E r \in Reqs :
                   /\ pc[r] = "save" /\ pc'[r] = "done"
                   /\ Row'.transcriptionStatus = "COMPLETED"
                   /\ Row'.transcription = result[r].text
       /\ Row.transcription # Null => Row'.transcription # Null]_vars

\* a stored text has outlived a FAILED write and a later PROCESSING write
C18_Witness ==
    \E r \in Reqs :
        /\ pc[r] = "download"
        /\ StatusesWritten(r) = <<"PROCESSING">>
        /\ Row.transcriptionStatus = "PROCESSING"
        /\ Row.transcription = "a"

\* -------------------------------------------------------------------- C19
\* C19 (as claimed): when the pipeline succeeded and the COMPLETED write threw,
\* the request writes FAILED, so the record is FAILED, and answers 500; the
\* transcription is as it was and both temp files have been handed to
\* cleanupTempFiles.
C19_SaveFailureWritesFailed ==
    [][\A r \in Reqs :
         (pc[r] = "markFailed" /\ StepOf(r) /\ error[r] = "update failed")
            => /\ cleanupCalls[r] = << <<videoPath[r], audioPath[r]>> >>
               /\ pending[r] = <<>>
               /\ writes'[r] = Append(writes[r], FailedData)
               /\ Row'.transcriptionStatus = "FAILED"
               /\ Row'.transcription = Row.transcription
               /\ response'[r].status = 500]_vars

\* C19 (amended): when the pipeline succeeded and the COMPLETED write throws,
\* nothing is stored and the request goes on to the FAILED write, both temp
\* files having been handed to cleanupTempFiles already; the request then
\* answers 500 and leaves the transcription as it was; when the FAILED write
\* returns the record is FAILED, and when it throws too the store is unchanged.
C19_SaveFailureIssuesFailedWrite ==
    [][\A r \in Reqs :
         /\ (pc[r] = "save" /\ StepOf(r) /\ pc'[r] # "done")
               => /\ pc'[r] = "markFailed"
                  /\ result[r] \in CompleteResults
                  /\ cleanupCalls[r] = << <<videoPath[r], audioPath[r]>> >>
                  /\ pending[r] = <<>>
                  /\ store' = store
                  /\ writes'[r] = writes[r]
                  /\ response'[r] = NoResponse
         /\ (pc[r] = "markFailed" /\ StepOf(r) /\ error[r] = "update failed")
               => /\ cleanupCalls[r] = << <<videoPath[r], audioPath[r]>> >>
                  /\ pending[r] = <<>>
                  /\ pc'[r] = "done"
                  /\ response'[r].status = 500
                  /\ Row'.transcription = Row.transcription
                  /\ \/ /\ writes'[r] = Append(writes[r], FailedData)
                        /\ Row'.transcriptionStatus = "FAILED"
                        /\ response'[r] = ErrorResponse(500, "update failed")
                     \/ /\ writes'[r] = writes[r]
                        /\ store' = store
                        /\ response'[r] = ErrorResponse(500, "Internal server error")]_vars

\* a run whose pipeline succeeded lost its COMPLETED write and stored FAILED
C19_Witness ==
    \E r \in Reqs :
        /\ pc[r] = "done"
        /\ response[r] = ErrorResponse(500, "update failed")
        /\ StatusesWritten(r) = <<"PROCESSING", "FAILED">>
        /\ Row.transcriptionStatus = "FAILED"

====
